---- MODULE Spec2Model ----
(***************************************************************************)
(* A model of two parts of marblerun:                                      *)
(*   - the mock quote validator (package quote: MockValidator), and the    *)
(*     coordinator's activation gate that consumes a validator;            *)
(*   - the Kubernetes admission-webhook injector (package injector).       *)
(***************************************************************************)
EXTENDS Naturals, Sequences, FiniteSets, TLC

VARIABLES
    valid,        \* MockValidator.valid: map[string]entry
    vres,         \* the last call made on the validator and what it returned
    state,        \* coordinator state tag
    activations,  \* activation table: marble name -> [count, certs: uuid -> fingerprint]
    ares,         \* the last Activate call and what it returned
    m,            \* the injector's Mutator
    minit,        \* the Mutator as constructed
    w,            \* the http.ResponseWriter of the last handled request
    lastReq,      \* the last handled request and the handler that served it
    memo          \* an earlier (request, response) pair kept by the client

vars == <<valid, vres, state, activations, ares, m, minit, w, lastReq, memo>>

quoteVars == <<valid, vres>>
coreVars == <<state, activations, ares>>
injectorVars == <<m, minit, w, lastReq, memo>>

(***************************************************************************)
(* Byte slices.  A Go []byte is nil or a (possibly empty) array of bytes;  *)
(* bytes.Equal and the conversion string(b) treat nil as empty.            *)
(***************************************************************************)
NilSlice == [isNil |-> TRUE, data |-> <<>>]

Slice(s) == [isNil |-> FALSE, data |-> s]

BytesEqual(a, b) == a.data = b.data

StringOf(b) == b.data

(***************************************************************************)
(* package quote                                                           *)
(***************************************************************************)
NoError == "<nil>"

\* PackageProperties.IsCompliant: UniqueID decides when the requirement sets
\* it; otherwise signer, product, security version and debug flag.
PkgIsCompliant(self, req) ==
    IF req.UniqueID # ""
    THEN self.UniqueID = req.UniqueID
    ELSE /\ self.SignerID = req.SignerID
         /\ self.ProductID = req.ProductID
         /\ self.SecurityVersion >= req.SecurityVersion
         /\ (self.Debug => req.Debug)

\* InfrastructureProperties.IsCompliant: every field the requirement sets
\* is contained in self.
InfraIsCompliant(self, req) ==
    /\ (req.CPUSVN # "" => self.CPUSVN = req.CPUSVN)
    /\ (req.RootCA # "" => self.RootCA = req.RootCA)

\* Validate without the comparison of the message.
ValidateIgnoringMessage(table, quote, message, pp, ip) ==
    IF StringOf(quote) \notin DOMAIN table
    THEN "wrong quote"
    ELSE LET entry == table[StringOf(quote)]
         IN  IF ~PkgIsCompliant(pp, entry.pp)
             THEN "package does not comply"
             ELSE IF ~InfraIsCompliant(ip, entry.ip)
                  THEN "infrastructure does not comply"
                  ELSE NoError

\* Validate accepting a quote the table does not hold.
ValidateAcceptingUnknown(table, quote, message, pp, ip) ==
    IF StringOf(quote) \notin DOMAIN table
    THEN NoError
    ELSE LET entry == table[StringOf(quote)]
         IN  IF ~BytesEqual(entry.message, message)
             THEN "wrong message"
             ELSE IF ~PkgIsCompliant(pp, entry.pp)
                  THEN "package does not comply"
                  ELSE IF ~InfraIsCompliant(ip, entry.ip)
                       THEN "infrastructure does not comply"
                       ELSE NoError

\* MockValidator.Validate: the error it returns (NoError for nil).
Validate(table, quote, message, pp, ip) ==
    IF StringOf(quote) \notin DOMAIN table
    THEN "wrong quote"
    ELSE LET entry == table[StringOf(quote)]
         IN  IF ~BytesEqual(entry.message, message)
             THEN "wrong message"
             ELSE IF ~PkgIsCompliant(pp, entry.pp)
                  THEN "package does not comply"
                  ELSE IF ~InfraIsCompliant(ip, entry.ip)
                       THEN "infrastructure does not comply"
                       ELSE NoError

\* m.valid[string(quote)] = entry{message, pp, ip}
PutEntry(table, quote, message, pp, ip) ==
    [k \in DOMAIN table \cup {StringOf(quote)} |->
        IF k = StringOf(quote)
        THEN [message |-> message, pp |-> pp, ip |-> ip]
        ELSE table[k]]

\* NewMockValidator: make(map[string]entry)
NewMockValidator == <<>>

\* sha256.Sum256 shortened to a one-byte digest of the message.
RECURSIVE SumBytes(_)
SumBytes(s) == IF s = <<>> THEN 0 ELSE s[1] + SumBytes(Tail(s))

Sum256(s) == << (31 * SumBytes(s) + Len(s) + 7) % 256 >>

\* MockIssuer.Issue
Issue(message) == Slice(Sum256(message.data))

(***************************************************************************)
(* Inputs of the quote package                                             *)
(***************************************************************************)
Quotes == {NilSlice, Slice(<<>>), Slice(<<1>>)}

PubKeys == {<<1>>, <<2>>}

\* Messages presented to Validate, and the ones tests register.
Messages == {NilSlice, Slice(<<>>), Issue(Slice(<<1>>))}

RegisteredMessages == {NilSlice, Issue(Slice(<<1>>))}

PkgUnique ==
    [UniqueID |-> "u1", SignerID |-> "", ProductID |-> 0,
     SecurityVersion |-> 0, Debug |-> FALSE]

PkgSigner(sv, debug) ==
    [UniqueID |-> "", SignerID |-> "s1", ProductID |-> 1,
     SecurityVersion |-> sv, Debug |-> debug]

PkgProps == {PkgUnique, PkgSigner(1, FALSE), PkgSigner(2, FALSE), PkgSigner(2, TRUE)}

RegisteredPkgProps == {PkgUnique, PkgSigner(1, FALSE), PkgSigner(2, TRUE)}

InfraProps == {[CPUSVN |-> "", RootCA |-> ""], [CPUSVN |-> "c1", RootCA |-> ""]}

NoCall ==
    [op |-> "none", quote |-> NilSlice, message |-> NilSlice,
     pp |-> PkgUnique, ip |-> [CPUSVN |-> "", RootCA |-> ""],
     err |-> NoError, before |-> NewMockValidator]

(***************************************************************************)
(* Operations of MockValidator                                             *)
(***************************************************************************)
\* AddValidQuote adds a valid quote
AddValidQuote(quote, message, pp, ip) ==
    /\ valid' = PutEntry(valid, quote, message, pp, ip)
    /\ vres' = [NoCall EXCEPT !.op = "AddValidQuote"]
    /\ ares' = [ares EXCEPT !.op = "none", !.quote = NilSlice, !.registered = FALSE,
                            !.verr = "not called", !.code = "",
                            !.before = [n \in DOMAIN activations |->
                                          [count |-> 0, certs |-> <<>>]]]
    /\ UNCHANGED <<state, activations, injectorVars>>

\* A call of Validate: the table is read, never written.
ValidateCall(quote, message, pp, ip) ==
    /\ vres' = [op |-> "Validate", quote |-> quote, message |-> message,
                pp |-> pp, ip |-> ip,
                err |-> Validate(valid, quote, message, pp, ip),
                before |-> valid]
    /\ UNCHANGED <<valid, coreVars, injectorVars>>

(***************************************************************************)
(* The coordinator's activation protocol, as far as the attestation gate   *)
(* is concerned: state check, manifest lookup, quote validation, quota,    *)
(* commit.                                                                 *)
(***************************************************************************)
MaxActivations == 1

UUIDs == {"uuid-1", "uuid-2"}

CSRs == {[ok |-> FALSE, pubkey |-> <<>>]} \cup {[ok |-> TRUE, pubkey |-> k] : k \in PubKeys}

MarbleTypes == {"web", "absent"}

Manifest ==
    [Marbles |-> [n \in {"web"} |->
                    [Package |-> PkgSigner(2, FALSE),
                     Infrastructure |-> [CPUSVN |-> "c1", RootCA |-> ""],
                     MaxActivations |-> MaxActivations]]]

NoActivations == [n \in DOMAIN Manifest.Marbles |-> [count |-> 0, certs |-> <<>>]]

\* msg = H(CSR.pubkey)
H(pubkey) == Slice(Sum256(pubkey))

\* The gRPC status code Activate returns.
ActivateCode(st, table, acts, quote, csr, uuid, marbleType) ==
    IF ~csr.ok THEN "PermissionDenied"
    ELSE IF st # "AcceptingMarbles" THEN "PermissionDenied"
    ELSE IF marbleType \notin DOMAIN Manifest.Marbles THEN "PermissionDenied"
    ELSE LET marble == Manifest.Marbles[marbleType]
             act == acts[marbleType]
         IN  IF Validate(table, quote, H(csr.pubkey), marble.Package,
                         marble.Infrastructure) # NoError
             THEN "PermissionDenied"
             ELSE IF uuid \in DOMAIN act.certs
                  THEN IF act.certs[uuid] = csr.pubkey THEN "OK" ELSE "PermissionDenied"
                  ELSE IF marble.MaxActivations > 0 /\ act.count >= marble.MaxActivations
                       THEN "ResourceExhausted"
                       ELSE "OK"

\* The commit of a successful activation: count and certificate by UUID.
Commit(acts, csr, uuid, marbleType) ==
    IF uuid \in DOMAIN acts[marbleType].certs
    THEN acts
    ELSE [acts EXCEPT ![marbleType] =
            [count |-> @.count + 1,
             certs |-> [u \in DOMAIN @.certs \cup {uuid} |->
                          IF u = uuid THEN csr.pubkey ELSE @.certs[u]]]]

NoActivate ==
    [op |-> "none", quote |-> NilSlice, registered |-> FALSE,
     verr |-> "not called", code |-> "", before |-> NoActivations]

\* What the validator answered to Activate, if Activate got as far as step 4.
ValidatorAnswer(st, table, quote, csr, marbleType) ==
    IF csr.ok /\ st = "AcceptingMarbles" /\ marbleType \in DOMAIN Manifest.Marbles
    THEN Validate(table, quote, H(csr.pubkey), Manifest.Marbles[marbleType].Package,
                  Manifest.Marbles[marbleType].Infrastructure)
    ELSE "not called"

SetManifest ==
    /\ state = "AcceptingManifest"
    /\ state' = "AcceptingMarbles"
    /\ ares' = NoActivate
    /\ vres' = NoCall
    /\ UNCHANGED <<valid, activations, injectorVars>>

Activate(quote, csr, uuid, marbleType) ==
    LET code == ActivateCode(state, valid, activations, quote, csr, uuid, marbleType)
    IN  /\ activations' = IF code = "OK"
                          THEN Commit(activations, csr, uuid, marbleType)
                          ELSE activations
        /\ ares' = [op |-> "Activate", quote |-> quote,
                    registered |-> StringOf(quote) \in DOMAIN valid,
                    verr |-> ValidatorAnswer(state, valid, quote, csr, marbleType),
                    code |-> code, before |-> activations]
        /\ vres' = NoCall
        /\ UNCHANGED <<valid, state, injectorVars>>

(***************************************************************************)
(* package injector: Kubernetes objects as far as mutate reads them        *)
(***************************************************************************)
StatusOK == 200

StatusBadRequest == 400

StatusInternalServerError == 500

SgxLimit == 10

EnvVar(name, value) == [Name |-> name, Value |-> value]

\* pod.Labels[key]: the zero value for a key the map does not hold
Label(labels, key) == IF key \in DOMAIN labels THEN labels[key] ELSE ""

\* strings.Join over the "/"-separated parts of a resource key
RECURSIVE Join(_, _)
Join(parts, sep) ==
    IF Len(parts) = 0 THEN ""
    ELSE IF Len(parts) = 1 THEN parts[1]
    ELSE parts[1] \o sep \o Join(Tail(parts), sep)

\* A JSON patch value: a typed name/value pair, alone or as a one-element array.
PatchValue(kind, array, name, val) ==
    [kind |-> kind, array |-> array, name |-> name, val |-> val]

PatchOp(path, value) == [op |-> "add", path |-> path, value |-> value]

\* envIsSet checks if an env variable is already set
envIsSet(setVars, testVar) ==
    IF Len(setVars) = 0 THEN FALSE
    ELSE \E i \in 1..Len(setVars) : setVars[i].Name = testVar.Name

\* The loop of addEnvVar from newVars[i] on, with the value of `first`.
RECURSIVE addEnvVarFrom(_, _, _, _, _)
addEnvVarFrom(setVars, newVars, basePath, i, first) ==
    IF i > Len(newVars) THEN <<>>
    ELSE LET newVar == newVars[i]
             path == IF first THEN basePath ELSE basePath \o "/-"
             newValue == PatchValue("EnvVar", first, newVar.Name, newVar.Value)
             rest == addEnvVarFrom(setVars, newVars, basePath, i + 1, FALSE)
         IN  IF ~envIsSet(setVars, newVar)
             THEN <<PatchOp(path, newValue)>> \o rest
             ELSE rest

\* addEnvVar creates a json patch setting all unset required environment variables
addEnvVar(setVars, newVars, basePath) ==
    addEnvVarFrom(setVars, newVars, basePath, 1, Len(setVars) = 0)

\* createResourcePatch creates a json patch for sgx resource limits
createResourcePatch(container, idx, resourceKey) ==
    LET base == "/spec/containers/" \o ToString(idx) \o "/resources"
        key == Join(resourceKey, "/")
    IN  IF container.Limits <= 0 /\ container.Requests <= 0
        THEN PatchOp(base, PatchValue("resources.limits", FALSE, key, ToString(SgxLimit)))
        ELSE IF container.Limits <= 0
             THEN PatchOp(base \o "/limits",
                          PatchValue("limits", FALSE, key, ToString(SgxLimit)))
             ELSE PatchOp(base \o "/limits/" \o Join(resourceKey, "~1"),
                          PatchValue("quantity", FALSE, "", ToString(SgxLimit)))

\* createMountPatch creates a json patch to mount a volume on a pod
createMountPatch(mounts, path, mountpath, uid) ==
    IF mounts <= 0
    THEN PatchOp(path, PatchValue("VolumeMount", TRUE, "uuid-file-" \o uid, mountpath))
    ELSE PatchOp(path \o "/-", PatchValue("VolumeMount", FALSE, "uuid-file-" \o uid, mountpath))

\* createVolumePatch creates a volume utilising the k8s downward api
createVolumePatch(volumes, uid) ==
    IF volumes <= 0
    THEN PatchOp("/spec/volumes",
                 PatchValue("Volume", TRUE, "uuid-file-" \o uid, "uuid-file:metadata.uid"))
    ELSE PatchOp("/spec/volumes/-",
                 PatchValue("Volume", FALSE, "uuid-file-" \o uid, "uuid-file:metadata.uid"))

\* The toleration patch appended when sgx injection is enabled.
tolerationPatch(tolerations, resourceKey) ==
    IF tolerations <= 0
    THEN PatchOp("/spec/tolerations",
                 PatchValue("Toleration", TRUE, Join(resourceKey, "/"), "Exists:NoSchedule"))
    ELSE PatchOp("/spec/tolerations/-",
                 PatchValue("Toleration", FALSE, Join(resourceKey, "/"), "Exists:NoSchedule"))

\* The three variables every container gets, before the UUID file is added.
baseEnvVars(coordAddr, marbleType, namespace, domainName) ==
    << EnvVar("EDG_MARBLE_COORDINATOR_ADDR", coordAddr),
       EnvVar("EDG_MARBLE_TYPE", marbleType),
       EnvVar("EDG_MARBLE_DNS_NAMES",
              marbleType \o "," \o marbleType \o "." \o namespace \o ","
                \o marbleType \o "." \o namespace \o ".svc." \o domainName) >>

\* One pass of the loop over pod.Spec.Containers; acc holds the variables
\* declared outside the loop: newEnvVars, patch, needNewVolume.
containerStep(acc, container, idx, marbleType, uid, resourceKey, injectSgx) ==
    LET unset == ~envIsSet(container.Env, EnvVar("EDG_MARBLE_UUID_FILE", ""))
        newEnvVars ==
            IF unset
            THEN Append(acc.newEnvVars,
                        EnvVar("EDG_MARBLE_UUID_FILE", "/" \o marbleType \o "-uid/uuid-file"))
            ELSE acc.newEnvVars
        mount ==
            IF unset
            THEN <<createMountPatch(container.VolumeMounts,
                        "/spec/containers/" \o ToString(idx) \o "/volumeMounts",
                        "/" \o marbleType \o "-uid", uid)>>
            ELSE <<>>
        env == addEnvVar(container.Env, newEnvVars,
                         "/spec/containers/" \o ToString(idx) \o "/env")
        res == IF injectSgx
               THEN <<createResourcePatch(container, idx, resourceKey)>>
               ELSE <<>>
    IN  [newEnvVars |-> newEnvVars,
         patch |-> acc.patch \o mount \o env \o res,
         needNewVolume |-> acc.needNewVolume \/ unset]

RECURSIVE containerLoop(_, _, _, _, _, _, _)
containerLoop(acc, containers, idx, marbleType, uid, resourceKey, injectSgx) ==
    IF idx >= Len(containers) THEN acc
    ELSE containerLoop(
            containerStep(acc, containers[idx + 1], idx, marbleType, uid,
                          resourceKey, injectSgx),
            containers, idx + 1, marbleType, uid, resourceKey, injectSgx)

NoPatch == [set |-> FALSE, null |-> FALSE, ops |-> <<>>]

\* json.Marshal(patch): a nil slice marshals to null
MarshalPatch(ops) == [set |-> TRUE, null |-> Len(ops) = 0, ops |-> ops]

NoReview ==
    [UID |-> "", Allowed |-> FALSE, Result |-> "", PatchType |-> "", Patch |-> NoPatch]

(***************************************************************************)
(* Inputs of the injector                                                  *)
(***************************************************************************)
MaxContainers == 2

Mutators ==
    { [CoordAddr |-> "coordinator-mesh-api.marblerun:2001", DomainName |-> "cluster.local",
       SGXResource |-> <<"kubernetes.azure.com", "sgx_epc_mem_in_MiB">>],
      [CoordAddr |-> "coord:2001", DomainName |-> "local", SGXResource |-> <<"sgx">>] }

ContainerEmpty == [Env |-> <<>>, VolumeMounts |-> 0, Limits |-> 0, Requests |-> 0]

ContainerOther ==
    [Env |-> <<EnvVar("OTHER", "x")>>, VolumeMounts |-> 1, Limits |-> 0, Requests |-> 1]

ContainerPreset ==
    [Env |-> <<EnvVar("EDG_MARBLE_TYPE", "custom"),
               EnvVar("EDG_MARBLE_UUID_FILE", "/custom/uuid-file")>>,
     VolumeMounts |-> 1, Limits |-> 1, Requests |-> 1]

Containers == {ContainerEmpty, ContainerOther, ContainerPreset}

SeqsUpTo(S, n) == UNION {[1..k -> S] : k \in 0..n}

LabelSets ==
    { <<>>,
      [k \in {"marblerun/marbletype"} |-> ""],
      [k \in {"marblerun/marbletype"} |-> "web"],
      [k \in {"app"} |-> "web"] }

Profiles ==
    { [uid |-> "uid-a", Namespace |-> "", Volumes |-> 0, Tolerations |-> 0],
      [uid |-> "uid-b", Namespace |-> "prod", Volumes |-> 1, Tolerations |-> 1] }

Pod(labels, profile, containers) ==
    [Labels |-> labels, Namespace |-> profile.Namespace, Containers |-> containers,
     Volumes |-> profile.Volumes, Tolerations |-> profile.Tolerations]

NoPod == Pod(<<>>, [Namespace |-> "", Volumes |-> 0, Tolerations |-> 0], <<>>)

NoDoc == [kind |-> "empty", uid |-> "", pod |-> NoPod]

PodDocs(containerLists) ==
    { [kind |-> "pod", uid |-> p.uid, pod |-> Pod(l, p, cs)] :
        l \in LabelSets, p \in Profiles, cs \in containerLists }

OtherDocs ==
    { NoDoc,
      [NoDoc EXCEPT !.kind = "garbage"],
      [NoDoc EXCEPT !.kind = "noRequest"],
      [NoDoc EXCEPT !.kind = "badPod", !.uid = "uid-a"] }

\* Well-formed requests with every body, and malformed ones with some.
RequestsOver(docs, badDocs) ==
    { [Method |-> "POST", ContentType |-> "application/json", ReadErr |-> FALSE, Body |-> d] :
        d \in docs \cup OtherDocs }
    \cup
    { [Method |-> mt, ContentType |-> ct, ReadErr |-> e, Body |-> d] :
        mt \in {"POST", "GET"}, ct \in {"application/json", "text/plain"},
        e \in BOOLEAN, d \in badDocs }

Requests ==
    RequestsOver(PodDocs(SeqsUpTo(Containers, MaxContainers)),
                 OtherDocs \cup PodDocs({<<>>}))

\* The requests a client sends more than once.
ReplayRequests ==
    RequestsOver(PodDocs(SeqsUpTo({ContainerEmpty}, MaxContainers)), {NoDoc})

\* json.Unmarshal of the body and of the pod in it: the error mutate returns
\* before it builds a response.
unmarshalError(body) ==
    IF body.doc.kind \in {"empty", "garbage"} THEN "invalid admission review"
    ELSE IF body.doc.kind = "noRequest" THEN "empty admission request"
    ELSE IF body.doc.kind = "badPod" THEN "invalid pod"
    ELSE NoError

\* The response for a pod that carries a marble type: the patch of all
\* containers, the volume, the tolerations.
inject(doc, marbleType, coordAddr, domainName, resourceKey, injectSgx) ==
    LET pod == doc.pod
        namespace == IF pod.Namespace = "" THEN "default" ELSE pod.Namespace
        acc == containerLoop(
                   [newEnvVars |-> baseEnvVars(coordAddr, marbleType, namespace, domainName),
                    patch |-> <<>>, needNewVolume |-> FALSE],
                   pod.Containers, 0, marbleType, doc.uid, resourceKey, injectSgx)
        vol == IF acc.needNewVolume
               THEN <<createVolumePatch(pod.Volumes, doc.uid)>> ELSE <<>>
        tol == IF injectSgx
               THEN <<tolerationPatch(pod.Tolerations, resourceKey)>> ELSE <<>>
    IN  [err |-> NoError,
         bytes |-> [UID |-> doc.uid, Allowed |-> TRUE, Result |-> "",
                    PatchType |-> "JSONPatch",
                    Patch |-> MarshalPatch(acc.patch \o vol \o tol)]]

\* The response for a pod without a marble type.
skipInjection(doc) ==
    [err |-> NoError,
     bytes |-> [UID |-> doc.uid, Allowed |-> TRUE,
                Result |-> "Success: Missing [marblerun/marbletype] label, injection skipped",
                PatchType |-> "", Patch |-> NoPatch]]

\* A variant of mutate that injects into pods without the label as well.
mutateIgnoringLabel(body, coordAddr, domainName, resourceKey, injectSgx) ==
    IF unmarshalError(body) # NoError
    THEN [err |-> unmarshalError(body), bytes |-> NoReview]
    ELSE inject(body.doc, Label(body.doc.pod.Labels, "marblerun/marbletype"),
                coordAddr, domainName, resourceKey, injectSgx)

\* mutate handles the creation of json patches for pods
mutate(body, coordAddr, domainName, resourceKey, injectSgx) ==
    IF unmarshalError(body) # NoError
    THEN [err |-> unmarshalError(body), bytes |-> NoReview]
    ELSE LET marbleType == Label(body.doc.pod.Labels, "marblerun/marbletype")
         IN  IF marbleType = ""
             THEN skipInjection(body.doc)
             ELSE inject(body.doc, marbleType, coordAddr, domainName,
                         resourceKey, injectSgx)

(***************************************************************************)
(* net/http as the handlers use it                                         *)
(***************************************************************************)
NewResponseWriter ==
    [status |-> 0, text |-> "", review |-> NoReview, headerWrites |-> 0, bodyWrites |-> 0]

\* w.WriteHeader(code): the first status written is the one sent
WriteHeader(rw, code) ==
    [rw EXCEPT !.status = IF rw.headerWrites = 0 THEN code ELSE @,
               !.headerWrites = @ + 1]

\* http.Error(w, msg, code)
HttpError(rw, msg, code) ==
    [WriteHeader(rw, code) EXCEPT !.text = @ \o msg, !.bodyWrites = @ + 1]

\* w.Write(mutatedBody)
WriteReview(rw, review) ==
    [rw EXCEPT !.review = review, !.bodyWrites = @ + 1]

\* ioutil.ReadAll(r.Body): the bytes read, never nil, and whether reading failed
ReadAll(r) == [body |-> [isNil |-> FALSE, doc |-> r.Body], err |-> r.ReadErr]

NilBody == [isNil |-> TRUE, doc |-> NoDoc]

\* check if http was POST and not empty: the body, or nil after an error
\* was written to w
checkRequest(rw, r) ==
    IF r.Method # "POST"
    THEN [w |-> HttpError(rw, "unable to handle requests other than POST", StatusBadRequest),
          body |-> NilBody]
    ELSE IF r.ContentType # "application/json"
    THEN [w |-> HttpError(rw, "wrong application type", StatusBadRequest),
          body |-> NilBody]
    ELSE IF ReadAll(r).err
    THEN [w |-> HttpError(rw, "unable to read request", StatusBadRequest),
          body |-> NilBody]
    ELSE [w |-> rw, body |-> ReadAll(r).body]

\* The writer after HandleMutate or HandleMutateNoSgx served r.
serve(mut, r, injectSgx) ==
    LET checked == checkRequest(NewResponseWriter, r)
        res == mutate(checked.body, mut.CoordAddr, mut.DomainName, mut.SGXResource, injectSgx)
    IN  IF checked.body.isNil
        THEN checked.w
        ELSE IF res.err # NoError
             THEN HttpError(checked.w, "unable to mutate request", StatusInternalServerError)
             ELSE WriteReview(WriteHeader(checked.w, StatusOK), res.bytes)

\* Whether the handler got as far as calling mutate.
callsMutate(r) == ~checkRequest(NewResponseWriter, r).body.isNil

NoRequest ==
    [handler |-> "none",
     r |-> [Method |-> "", ContentType |-> "", ReadErr |-> FALSE, Body |-> NoDoc],
     called |-> FALSE]

NoMemo == [set |-> FALSE, later |-> FALSE, req |-> NoRequest, w |-> NewResponseWriter]

\* The kept pair, once a later request has been handled.
Later(mem) == [mem EXCEPT !.later = mem.set]

\* A handler that keeps the coordinator address of the pod it last served.
HandleMutateKeepingState(r) ==
    /\ w' = serve(m, r, TRUE)
    /\ lastReq' = [handler |-> "HandleMutate", r |-> r, called |-> callsMutate(r)]
    /\ m' = [m EXCEPT !.CoordAddr = IF r.Body.kind = "pod" /\ r.Body.pod.Namespace # ""
                                    THEN "coordinator." \o r.Body.pod.Namespace
                                    ELSE @]
    /\ memo' = Later(memo)
    /\ UNCHANGED <<minit, quoteVars, coreVars>>

\* HandleMutate handles mutate requests and injects sgx tolerations into the request
HandleMutate(r) ==
    /\ w' = serve(m, r, TRUE)
    /\ lastReq' = [handler |-> "HandleMutate", r |-> r, called |-> callsMutate(r)]
    /\ memo' = Later(memo)
    /\ UNCHANGED <<m, minit, quoteVars, coreVars>>

\* HandleMutateNoSgx is called when the sgx injection label is not set
HandleMutateNoSgx(r) ==
    /\ w' = serve(m, r, FALSE)
    /\ lastReq' = [handler |-> "HandleMutateNoSgx", r |-> r, called |-> callsMutate(r)]
    /\ memo' = Later(memo)
    /\ UNCHANGED <<m, minit, quoteVars, coreVars>>

\* The client keeps the request it last sent and the response it got.
Remember ==
    /\ lastReq.handler # "none"
    /\ memo' = [set |-> TRUE, later |-> FALSE, req |-> lastReq, w |-> w]
    /\ UNCHANGED <<m, minit, w, lastReq, quoteVars, coreVars>>

(***************************************************************************)
(* Specifications                                                          *)
(***************************************************************************)
Construct(mut) ==
    /\ valid = NewMockValidator
    /\ vres = NoCall
    /\ state = "AcceptingManifest"
    /\ activations = NoActivations
    /\ ares = NoActivate
    /\ m = mut
    /\ minit = mut
    /\ w = NewResponseWriter
    /\ lastReq = NoRequest
    /\ memo = NoMemo

\* The webhook, started with either configuration.
Init == \E mut \in Mutators : Construct(mut)

\* The coordinator and its validator; the webhook plays no part.
InitCoordinator == Construct(CHOOSE mut \in Mutators : TRUE)

NextValidator ==
    \/ \E q \in Quotes, msg \in RegisteredMessages, pp \in RegisteredPkgProps,
             ip \in InfraProps :
          AddValidQuote(q, msg, pp, ip)
    \/ \E q \in Quotes, msg \in Messages, pp \in PkgProps, ip \in InfraProps :
          ValidateCall(q, msg, pp, ip)

NextCore ==
    \/ \E q \in Quotes, msg \in RegisteredMessages, pp \in RegisteredPkgProps,
             ip \in InfraProps :
          AddValidQuote(q, msg, pp, ip)
    \/ SetManifest
    \/ \E q \in Quotes, csr \in CSRs, u \in UUIDs, mt \in MarbleTypes :
          Activate(q, csr, u, mt)

NextInjector ==
    \E r \in Requests :
        \/ HandleMutate(r)
        \/ HandleMutateNoSgx(r)

NextReplay ==
    \/ \E r \in ReplayRequests :
          \/ HandleMutate(r)
          \/ HandleMutateNoSgx(r)
    \/ Remember

SpecValidator == InitCoordinator /\ [][NextValidator]_vars

SpecCore == InitCoordinator /\ [][NextCore]_vars

SpecInjector == Init /\ [][NextInjector]_vars

SpecReplay == Init /\ [][NextReplay]_vars

(***************************************************************************)
(* Properties                                                              *)
(***************************************************************************)
MarbleTypeLabel == "marblerun/marbletype"

ApplicationJSON == "application/json"

RequiredEnv ==
    {"EDG_MARBLE_COORDINATOR_ADDR", "EDG_MARBLE_TYPE", "EDG_MARBLE_DNS_NAMES",
     "EDG_MARBLE_UUID_FILE"}

\* C1: Validate returns no error exactly when the quote bytes are registered,
\* the registered message equals the given message byte for byte, and the
\* given package and infrastructure properties comply with the registered
\* ones; and Validate leaves the table of registered quotes as it was.
C1_ValidateIffRegisteredMatch ==
    vres.op = "Validate" =>
        /\ valid = vres.before
        /\ (vres.err = NoError) <=>
              /\ vres.quote.data \in DOMAIN valid
              /\ valid[vres.quote.data].message.data = vres.message.data
              /\ PkgIsCompliant(vres.pp, valid[vres.quote.data].pp)
              /\ InfraIsCompliant(vres.ip, valid[vres.quote.data].ip)

\* A nil message validated against a registered quote, with two quotes
\* registered.
C1_Witness ==
    /\ vres.op = "Validate"
    /\ vres.err = NoError
    /\ Cardinality(DOMAIN valid) = 2
    /\ vres.message = Slice(<<>>)
    /\ valid[vres.quote.data].message = NilSlice

\* C2: an activation succeeds only if the validator returned no error; and an
\* activation presenting a quote that was never registered with the mock
\* validator fails with PermissionDenied and leaves the activation table as
\* it was, whatever happened before.
C2_AttestationGate ==
    ares.op = "Activate" =>
        /\ (ares.code = "OK" => ares.verr = NoError)
        /\ (~ares.registered =>
                /\ ares.code = "PermissionDenied"
                /\ activations = ares.before)

\* An unregistered quote presented after an earlier activation succeeded.
C2_Witness ==
    /\ ares.op = "Activate"
    /\ ~ares.registered
    /\ ares.code = "PermissionDenied"
    /\ state = "AcceptingMarbles"
    /\ activations["web"].count > 0
    /\ DOMAIN valid # {}

\* The patch operations that add variable `name` to the env of container idx.
EnvAdds(ops, idx, name) ==
    { i \in 1..Len(ops) :
        /\ ops[i].path \in { "/spec/containers/" \o ToString(idx) \o "/env",
                             "/spec/containers/" \o ToString(idx) \o "/env/-" }
        /\ ops[i].value.kind = "EnvVar"
        /\ ops[i].value.name = name }

\* Whether the last request was served with a patch for a labelled pod.
Patched ==
    /\ lastReq.called
    /\ w.status = StatusOK
    /\ w.review.PatchType = "JSONPatch"

\* C3: for every container of a labelled pod, each required variable the
\* container does not define is added by exactly one patch operation on that
\* container, and a variable it defines is not added.
C3_EachUnsetVarAddedOnce ==
    Patched =>
        LET containers == lastReq.r.Body.pod.Containers
        IN  \A idx \in 0..(Len(containers) - 1) : \A name \in RequiredEnv :
                Cardinality(EnvAdds(w.review.Patch.ops, idx, name)) =
                    IF envIsSet(containers[idx + 1].Env, EnvVar(name, "")) THEN 0 ELSE 1

\* C4: a pod without a non-empty marblerun/marbletype label is allowed with
\* the request's UID, without patch and without patch type, by both handlers.
C4_UnlabelledPodAllowedUnpatched ==
    ( /\ lastReq.called
      /\ lastReq.r.Body.kind = "pod"
      /\ Label(lastReq.r.Body.pod.Labels, MarbleTypeLabel) = "" ) =>
        /\ w.status = StatusOK
        /\ w.review.Allowed
        /\ w.review.UID = lastReq.r.Body.uid
        /\ w.review.PatchType = ""
        /\ ~w.review.Patch.set

\* The sgx handler served a pod whose label is present but empty.
C4_Witness ==
    /\ lastReq.handler = "HandleMutate"
    /\ lastReq.called
    /\ lastReq.r.Body.kind = "pod"
    /\ MarbleTypeLabel \in DOMAIN lastReq.r.Body.pod.Labels
    /\ lastReq.r.Body.pod.Labels[MarbleTypeLabel] = ""
    /\ lastReq.r.Body.uid = "uid-b"
    /\ w.review.Allowed

\* C5: a request reaches mutate only if it is a POST of application/json with
\* a body that is not empty; every other request gets status 400 from
\* checkRequest, without a call of mutate and with one status and one body
\* written.
C5_OnlyNonEmptyPostReachesMutate ==
    lastReq.handler # "none" =>
        LET good == /\ lastReq.r.Method = "POST"
                    /\ lastReq.r.ContentType = ApplicationJSON
                    /\ lastReq.r.Body.kind # "empty"
        IN  /\ (lastReq.called => good)
            /\ (~good => /\ w.status = StatusBadRequest
                         /\ ~lastReq.called
                         /\ w.headerWrites = 1
                         /\ w.bodyWrites = 1)

====
